---- MODULE Spec2Model ----
(***************************************************************************)
(* State-machine model of ArgumentParser (src/argparse.hpp).               *)
(*                                                                         *)
(* Strings are sequences of one-character strings, so that size(),         *)
(* substr(), operator[] and the stream insertions of the source are        *)
(* computed as the source computes them.  Vector positions are the         *)
(* source's 0-based positions; position N is element N+1 of the sequence.  *)
(***************************************************************************)
EXTENDS Integers, Sequences, FiniteSets, TLC

VARIABLES index_, ignore_first_, app_name_, final_name_, arguments_,
          variables_, argv, ret

vars == <<index_, ignore_first_, app_name_, final_name_, arguments_,
          variables_, argv, ret>>

\* The members a declaration, retrieval or clear can touch.
registry == <<index_, final_name_, arguments_, variables_>>

----------------------------------------------------------------------------
\* Bounds of the model
MaxArgs == 3

\* Program constants
Plus == 43
Star == 42
WrapColumn == 80
MaxShown == 3

----------------------------------------------------------------------------
\* Strings

EmptyStr == << >>

LowerCase == <<"a","b","c","d","e","f","g","h","i","j","k","l","m",
               "n","o","p","q","r","s","t","u","v","w","x","y","z">>
UpperCase == <<"A","B","C","D","E","F","G","H","I","J","K","L","M",
               "N","O","P","Q","R","S","T","U","V","W","X","Y","Z">>

toupper(c) ==
  IF \E k \in 1..Len(LowerCase) : LowerCase[k] = c
    THEN UpperCase[CHOOSE k \in 1..Len(LowerCase) : LowerCase[k] = c]
    ELSE c

upper(in) == [k \in 1..Len(in) |-> toupper(in[k])]

Spaces(n) == [k \in 1..n |-> " "]

Min(a, b) == IF a < b THEN a ELSE b

RECURSIVE Repeat(_, _)
Repeat(s, n) == IF n = 0 THEN EmptyStr ELSE s \o Repeat(s, n - 1)

----------------------------------------------------------------------------
\* Any: the type-erased slot.  content is never null for a slot the
\* registry created, type is what type_info() reports.

StringT == "string"
VectorT == "vector"

Holder(type, held) == [type |-> type, held |-> held]

\* castTo<T>: the held value when the stored type is T, else bad_cast.
castTo(any, T) ==
  IF any.type = T THEN [outcome |-> "ok", value |-> any.held]
                  ELSE [outcome |-> "bad_cast", value |-> EmptyStr]

----------------------------------------------------------------------------
\* Argument

Argument(short_name, name, optional, nargs) ==
  IF nargs = Plus \/ nargs = Star
    THEN [short_name |-> short_name, name |-> name, optional |-> optional,
          fixed |-> FALSE, nargs |-> nargs]
    ELSE [short_name |-> short_name, name |-> name, optional |-> optional,
          fixed |-> TRUE, nargs |-> nargs]

toString(arg) ==
  LET uname == IF arg.name = EmptyStr THEN upper(arg.short_name)
                                      ELSE upper(arg.name)
      open  == IF arg.optional THEN <<"[">> ELSE EmptyStr
      flag  == IF arg.name # EmptyStr THEN <<"-","-">> \o arg.name
                                      ELSE <<"-">> \o arg.short_name
      N     == Min(MaxShown, arg.nargs)
      fix   == IF arg.fixed
                 THEN Repeat(<<" ">> \o uname, N)
                      \o (IF N < arg.nargs THEN <<" ",".",".",".">> ELSE EmptyStr)
                 ELSE EmptyStr
      var   == IF ~arg.fixed
                 THEN <<" ">>
                      \o (IF arg.nargs = Star THEN <<"[">> ELSE EmptyStr)
                      \o uname \o <<" ">>
                      \o (IF arg.nargs = Plus THEN <<"[">> ELSE EmptyStr)
                      \o uname \o <<".",".",".","]">>
                 ELSE EmptyStr
      close == IF arg.optional THEN <<"]">> ELSE EmptyStr
  IN  open \o flag \o fix \o var \o close

----------------------------------------------------------------------------
\* Index map

EmptyIndex == [k \in {} |-> 0]

IndexPut(idx, key, N) ==
  [k \in (DOMAIN idx) \cup {key} |-> IF k = key THEN N ELSE idx[k]]

\* The slot insertArgument pairs with a descriptor.
NewSlot(arg) ==
  IF arg.fixed THEN Holder(StringT, EmptyStr) ELSE Holder(VectorT, << >>)

IndexAfterInsert(idx, arg, N) ==
  LET i1 == IF arg.short_name # EmptyStr THEN IndexPut(idx, arg.short_name, N)
                                         ELSE idx
  IN  IF arg.name # EmptyStr THEN IndexPut(i1, arg.name, N) ELSE i1

insertArgument(arg) ==
  LET N == Len(arguments_)
  IN  /\ arguments_' = Append(arguments_, arg)
      /\ variables_' = Append(variables_, NewSlot(arg))
      /\ index_' = IndexAfterInsert(index_, arg, N)

----------------------------------------------------------------------------
\* sanitize: strip the dashes of a well-formed name, or throw.

sanitize(name) ==
  IF Len(name) = 2
    THEN IF name[1] = "-"
           THEN [outcome |-> "ok", value |-> SubSeq(name, 2, Len(name))]
           ELSE [outcome |-> "invalid_argument", value |-> EmptyStr]
    ELSE IF Len(name) > 2
      THEN IF name[1] = "-" /\ name[2] = "-"
             THEN [outcome |-> "ok", value |-> SubSeq(name, 3, Len(name))]
             ELSE [outcome |-> "invalid_argument", value |-> EmptyStr]
      ELSE [outcome |-> "invalid_argument", value |-> EmptyStr]

----------------------------------------------------------------------------
\* What the last call was and how it ended: the names and the shape it was
\* given, whether it returned or what it threw, and what it returned (a
\* string, an ordered sequence of strings, or a number; usage also leaves
\* the descriptors it streamed).
Ret(op, names, shape, outcome) ==
  [op |-> op, names |-> names, shape |-> shape, outcome |-> outcome,
   str |-> EmptyStr, vec |-> << >>, num |-> 0, items |-> << >>]

Running == ret.outcome # "crash"

Init ==
  /\ index_ = EmptyIndex
  /\ ignore_first_ = "indeterminate"
  /\ app_name_ = EmptyStr
  /\ final_name_ = EmptyStr
  /\ arguments_ = << >>
  /\ variables_ = << >>
  /\ argv = << >>
  /\ ret = Ret("init", << >>, "", "ok")

----------------------------------------------------------------------------
\* Declarations

\* addArgument(name, nargs, optional)
addArgument1(name, nargs, optional) ==
  /\ Running
  /\ Len(arguments_) < MaxArgs
  /\ LET s == sanitize(name)
     IN  IF s.outcome = "ok"
           THEN /\ IF Len(name) > 2
                     THEN insertArgument(Argument(EmptyStr, s.value, optional, nargs))
                     ELSE insertArgument(Argument(s.value, EmptyStr, optional, nargs))
                /\ ret' = Ret("addArgument", <<name>>, "", "ok")
           ELSE /\ UNCHANGED <<index_, arguments_, variables_>>
                /\ ret' = Ret("addArgument", <<name>>, "", s.outcome)
  /\ UNCHANGED <<ignore_first_, app_name_, final_name_, argv>>

\* Variant of addArgument with two names that inserts the descriptor of
\* the short name before the long name has been validated.
addArgument2_partial(short_name, name, nargs, optional) ==
  /\ Running
  /\ Len(arguments_) < MaxArgs
  /\ LET s == sanitize(short_name)
         l == sanitize(name)
     IN  IF s.outcome = "ok"
           THEN /\ insertArgument(Argument(s.value, l.value, optional, nargs))
                /\ ret' = Ret("addArgument", <<short_name, name>>, "", l.outcome)
           ELSE /\ UNCHANGED <<index_, arguments_, variables_>>
                /\ ret' = Ret("addArgument", <<short_name, name>>, "",
                              "invalid_argument")
  /\ UNCHANGED <<ignore_first_, app_name_, final_name_, argv>>

\* addArgument(short_name, name, nargs, optional)
addArgument2(short_name, name, nargs, optional) ==
  /\ Running
  /\ Len(arguments_) < MaxArgs
  /\ LET s == sanitize(short_name)
         l == sanitize(name)
     IN  IF s.outcome = "ok" /\ l.outcome = "ok"
           THEN /\ insertArgument(Argument(s.value, l.value, optional, nargs))
                /\ ret' = Ret("addArgument", <<short_name, name>>, "", "ok")
           ELSE /\ UNCHANGED <<index_, arguments_, variables_>>
                /\ ret' = Ret("addArgument", <<short_name, name>>, "",
                              "invalid_argument")
  /\ UNCHANGED <<ignore_first_, app_name_, final_name_, argv>>

\* addFinalArgument(name, nargs, optional)
addFinalArgument(name, nargs, optional) ==
  /\ Running
  /\ Len(arguments_) < MaxArgs
  /\ final_name_' = name
  /\ insertArgument(Argument(EmptyStr, name, optional, nargs))
  /\ ret' = Ret("addFinalArgument", <<name>>, "", "ok")
  /\ UNCHANGED <<ignore_first_, app_name_, argv>>

ignoreFirstArgument(ignore_first) ==
  /\ Running
  /\ ignore_first_' = (IF ignore_first THEN "true" ELSE "false")
  /\ ret' = Ret("ignoreFirstArgument", << >>, "", "ok")
  /\ UNCHANGED <<index_, app_name_, final_name_, arguments_, variables_, argv>>

----------------------------------------------------------------------------
\* parse(argv): only the application name is recorded.  ignore_first_ is
\* never initialised by the class, so until ignoreFirstArgument has been
\* called the read yields either truth value.

IgnoreFirstReads ==
  IF ignore_first_ = "indeterminate" THEN BOOLEAN
                                     ELSE {ignore_first_ = "true"}

parse(tokens) ==
  /\ Running
  /\ IF app_name_ = EmptyStr
       THEN \E ignore \in IgnoreFirstReads :
              app_name_' = IF ~ignore /\ tokens # << >> THEN tokens[1]
                                                        ELSE app_name_
       ELSE app_name_' = app_name_
  /\ argv' = tokens
  /\ ret' = Ret("parse", << >>, "", "ok")
  /\ UNCHANGED <<index_, ignore_first_, final_name_, arguments_, variables_>>

----------------------------------------------------------------------------
\* retrieve<T>(name)

\* variables_[N] with N past the end is an out-of-bounds read: the process
\* may die, or castTo may see any type tag and any content.
GarbageStr == {EmptyStr, <<"?">>}
Garbage(T) == IF T = StringT THEN GarbageStr ELSE {<< >>} \cup {<<g>> : g \in GarbageStr}

retrieveResult(name, T) ==
  IF name \notin DOMAIN index_
    THEN {[outcome |-> "out_of_range", value |-> EmptyStr]}
    ELSE LET N == index_[name]
         IN  IF N < Len(variables_)
               THEN {castTo(variables_[N + 1], T)}
               ELSE {[outcome |-> "crash", value |-> EmptyStr],
                     [outcome |-> "bad_cast", value |-> EmptyStr]}
                    \cup {[outcome |-> "ok", value |-> g] : g \in Garbage(T)}

\* Variant of retrieve that looks the name up with operator[] without
\* testing for the key first, which inserts an absent key at position 0.
retrieve_unguarded(name, T) ==
  /\ Running
  /\ index_' = IF name \in DOMAIN index_ THEN index_ ELSE IndexPut(index_, name, 0)
  /\ \E r \in retrieveResult(name, T) :
       ret' = IF T = StringT
                THEN [Ret("retrieve", <<name>>, T, r.outcome) EXCEPT !.str = r.value]
                ELSE [Ret("retrieve", <<name>>, T, r.outcome) EXCEPT !.vec = r.value]
  /\ UNCHANGED <<ignore_first_, app_name_, final_name_, arguments_,
                 variables_, argv>>

retrieve(name, T) ==
  /\ Running
  /\ \E r \in retrieveResult(name, T) :
       ret' = IF T = StringT
                THEN [Ret("retrieve", <<name>>, T, r.outcome) EXCEPT !.str = r.value]
                ELSE [Ret("retrieve", <<name>>, T, r.outcome) EXCEPT !.vec = r.value]
  /\ UNCHANGED <<index_, ignore_first_, app_name_, final_name_, arguments_,
                 variables_, argv>>

----------------------------------------------------------------------------
\* count(name)

countResult(name) ==
  IF name \notin DOMAIN index_
    THEN {[outcome |-> "ok", value |-> 0]}
    ELSE LET N == index_[name]
         IN  IF N < Len(arguments_)
               THEN LET arg == arguments_[N + 1]
                        var == variables_[N + 1]
                        r   == castTo(var, IF arg.fixed THEN StringT ELSE VectorT)
                    IN  IF r.outcome # "ok"
                          THEN {[outcome |-> r.outcome, value |-> 0]}
                          ELSE IF arg.fixed
                                 THEN {[outcome |-> "ok",
                                        value |-> IF r.value # EmptyStr THEN 1 ELSE 0]}
                                 ELSE {[outcome |-> "ok", value |-> Len(r.value)]}
               ELSE {[outcome |-> "crash", value |-> 0],
                     [outcome |-> "bad_cast", value |-> 0],
                     [outcome |-> "ok", value |-> 0],
                     [outcome |-> "ok", value |-> 1]}

count(name) ==
  /\ Running
  /\ \E r \in countResult(name) :
       ret' = [Ret("count", <<name>>, "", r.outcome) EXCEPT !.num = r.value]
  /\ UNCHANGED <<index_, ignore_first_, app_name_, final_name_, arguments_,
                 variables_, argv>>

----------------------------------------------------------------------------
\* clear()

clear ==
  /\ Running
  /\ index_' = EmptyIndex
  /\ arguments_' = << >>
  /\ variables_' = << >>
  /\ ret' = Ret("clear", << >>, "", "ok")
  /\ UNCHANGED <<ignore_first_, app_name_, final_name_, argv>>

----------------------------------------------------------------------------
\* usage()
\*
\* The state of the rendering loop: the text streamed so far, the running
\* linelength, and for each descriptor streamed its position in arguments_,
\* the size of its rendering, whether the line break was emitted in front
\* of it and the pass that streamed it (1 required, 2 optional, 3 final).

Preamble == <<"U","s","a","g","e",":"," ">> \o app_name_ \o <<" ">>

Item(pos, len, brk, pass) ==
  [pos |-> pos, len |-> len, brk |-> brk, pass |-> pass]

\* One iteration body of the required / optional loops.
WrapStep(st, pos, argstr, indent, pass) ==
  IF Len(argstr) + st.linelength > WrapColumn
    THEN [help |-> st.help \o <<"\n">> \o Spaces(indent) \o argstr \o <<" ">>,
          linelength |-> 0,
          items |-> Append(st.items, Item(pos, Len(argstr), TRUE, pass))]
    ELSE [help |-> st.help \o argstr \o <<" ">>,
          linelength |-> st.linelength + Len(argstr),
          items |-> Append(st.items, Item(pos, Len(argstr), FALSE, pass))]

\* Whether a loop skips the descriptor.
Skipped(arg, wantOptional) ==
  \/ arg.optional # wantOptional
  \/ arg.name = final_name_

RECURSIVE UsagePass(_, _, _, _)
UsagePass(i, wantOptional, st, indent) ==
  IF i > Len(arguments_) THEN st
  ELSE LET arg == arguments_[i]
       IN  IF Skipped(arg, wantOptional)
             THEN UsagePass(i + 1, wantOptional, st, indent)
             ELSE UsagePass(i + 1, wantOptional,
                            WrapStep(st, i, toString(arg), indent,
                                     IF wantOptional THEN 2 ELSE 1),
                            indent)

UsageLoops ==
  LET indent == Len(Preamble)
      st0 == [help |-> Preamble, linelength |-> 0, items |-> << >>]
  IN  UsagePass(1, TRUE, UsagePass(1, FALSE, st0, indent), indent)

\* The final argument, rendered from the descriptor at position N.
FinalStep(st, N, indent) ==
  LET argstr == toString(arguments_[N + 1])
      brk == Len(argstr) + (Len(st.help) % WrapColumn) > WrapColumn
  IN  [help |-> st.help
                \o (IF brk THEN <<"\n">> \o Spaces(indent) ELSE EmptyStr)
                \o argstr,
       linelength |-> st.linelength,
       items |-> Append(st.items, Item(N + 1, Len(argstr), brk, 3))]

\* index_[final_name_] inserts the key with position 0 when it is absent.
IndexAfterUsage ==
  IF final_name_ # EmptyStr /\ final_name_ \notin DOMAIN index_
    THEN IndexPut(index_, final_name_, 0)
    ELSE index_

UsageRet(outcome, st) ==
  [Ret("usage", << >>, "", outcome) EXCEPT !.str = st.help, !.items = st.items]

usage ==
  /\ Running
  /\ LET st == UsageLoops
         indent == Len(Preamble)
     IN  IF final_name_ = EmptyStr
           THEN /\ ret' = UsageRet("ok", st)
                /\ index_' = index_
           ELSE LET N == IndexAfterUsage[final_name_]
                IN  IF N < Len(arguments_)
                      THEN LET fin == FinalStep(st, N, indent)
                           IN  /\ ret' = UsageRet("ok", fin)
                               /\ index_' = IndexAfterUsage
                      ELSE \* arguments_[N] is read past the end of the vector
                           \/ /\ ret' = UsageRet("crash", st)
                              /\ index_' = IndexAfterUsage
                           \/ /\ \E g \in GarbageStr :
                                   ret' = UsageRet("undefined",
                                                   [st EXCEPT !.help = st.help \o g])
                              /\ index_' = IndexAfterUsage
  /\ UNCHANGED <<ignore_first_, app_name_, final_name_, arguments_, variables_, argv>>

----------------------------------------------------------------------------
\* The calls a client makes, with their inputs drawn from small sets.

ShortX  == <<"-","x">>
LongDir == <<"-","-","o","u","t","p","u","t","-","d","i","r","e","c","t","o","r","y">>
LongIn  == <<"-","-","i","n">>
BareX   == <<"x">>
BareIn  == <<"i","n">>
DashIn  == <<"-","i","n">>
NameX   == <<"x">>
NameDir == <<"o","u","t","p","u","t","-","d","i","r","e","c","t","o","r","y">>
NameOut == <<"o","u","t">>

DeclNames   == {ShortX, LongDir, BareX, BareIn, DashIn}
ShortNames  == {ShortX, BareX}
LongNames   == {LongDir, DashIn}
FinalNames  == {NameOut}
LookupNames == {NameX, NameDir, NameOut}
Shapes      == {StringT, VectorT}
\* <<nargs, optional>> of a declaration
DeclKinds   == {<<1, TRUE>>, <<2, FALSE>>}
PairKinds   == {<<Star, TRUE>>}
FinalKinds  == {<<1, FALSE>>}
TokenLists  == {<<ShortX, <<"v">>>>}

Next ==
  \/ \E name \in DeclNames, k \in DeclKinds : addArgument1(name, k[1], k[2])
  \/ \E short_name \in ShortNames, name \in LongNames, k \in PairKinds :
       addArgument2(short_name, name, k[1], k[2])
  \/ \E name \in FinalNames, k \in FinalKinds : addFinalArgument(name, k[1], k[2])
  \/ \E tokens \in TokenLists : parse(tokens)
  \/ \E name \in LookupNames, T \in Shapes : retrieve(name, T)
  \/ \E name \in LookupNames : count(name)
  \/ usage
  \/ clear

Spec == Init /\ [][Next]_vars

----------------------------------------------------------------------------
\* The documented use of the class: declare one argument, parse a token
\* list that names it, retrieve it.

BindNames  == {ShortX, <<"-","n">>, <<"-","1">>, <<"-","y">>, LongIn}
BindValues == {<<"v">>, <<"4","2">>, <<"a",".","t","x","t">>}
BindTokens(flag) ==
  {<<flag, v>> : v \in BindValues}
    \cup {<<flag, <<"a">>, <<"b">>, <<"c">>>>, <<flag>>}

BindIgnore ==
  /\ ret.op = "init"
  /\ \E b \in BOOLEAN : ignoreFirstArgument(b)

BindDeclare ==
  /\ ret.op \in {"init", "ignoreFirstArgument"}
  /\ \E name \in BindNames, nargs \in {1, Plus} : addArgument1(name, nargs, TRUE)

BindParse ==
  /\ ret.op = "addArgument"
  /\ \E tokens \in BindTokens(ret.names[1]) : parse(tokens)

BindRetrieve ==
  /\ ret.op = "parse"
  /\ \E T \in Shapes : retrieve(sanitize(argv[1]).value, T)

NextBind == BindIgnore \/ BindDeclare \/ BindParse \/ BindRetrieve

SpecBind == Init /\ [][NextBind]_vars

----------------------------------------------------------------------------
\* Vocabulary of the properties

IsDeclaration(r) == r.op \in {"addArgument", "addFinalArgument"}
Errors == {"out_of_range", "bad_cast"}

\* Name syntax of a declaration: -c, or -- followed by at least one character.
WellFormedName(name) ==
  \/ Len(name) = 2 /\ name[1] = "-"
  \/ Len(name) > 2 /\ name[1] = "-" /\ name[2] = "-"

StripDashes(name) ==
  IF Len(name) = 2 THEN SubSeq(name, 2, 2) ELSE SubSeq(name, 3, Len(name))

\* The bare names a declaration call supplies.
SuppliedNames(r) ==
  IF r.op = "addFinalArgument" THEN {r.names[1]}
  ELSE {StripDashes(r.names[k]) : k \in {j \in 1..Len(r.names) : WellFormedName(r.names[j])}}

\* A slot exists for the name.
HasSlot(name) == name \in DOMAIN index_ /\ index_[name] < Len(variables_)
HeldShape(name) == variables_[index_[name] + 1].type

RECURSIVE SumLen(_, _, _)
SumLen(items, a, b) == IF a > b THEN 0 ELSE items[a].len + SumLen(items, a + 1, b)

\* First descriptor of the output line that descriptor k is on.
LineStart(items, k) ==
  CHOOSE j \in 1..k :
    /\ j = 1 \/ items[j].brk
    /\ \A m \in (j + 1)..k : ~items[m].brk

NonFinalItems(items) == SelectSeq(items, LAMBDA it : it.pass # 3)

\* Summed sizes of the descriptors on the current line when k is about to
\* be placed.
OnLineBefore(items, k) ==
  IF k = 1 THEN 0 ELSE SumLen(items, LineStart(items, k - 1), k - 1)

UsageDone == ret.op = "usage" /\ ret.outcome = "ok"

----------------------------------------------------------------------------
\* C1: after declaring a short name with fixed count 1 on an empty
\* registry and parsing [-x, v] with v not starting with a dash,
\* retrieve<string>("x") returns v.
C1_RetrieveYieldsBoundValue ==
  ( /\ ret.op = "retrieve"
    /\ ret.shape = StringT
    /\ Len(arguments_) = 1
    /\ arguments_[1].fixed /\ arguments_[1].nargs = 1
    /\ arguments_[1].short_name = ret.names[1]
    /\ Len(argv) = 2 /\ argv[2][1] # "-" )
  => (ret.outcome = "ok" /\ ret.str = argv[2])

\* C2: for --in declared '+', parsing [--in, a, b, c] makes the retrieved
\* sequence <<a, b, c>>, and parsing [--in] alone ends in MissingValue.
C2_AtLeastOneBinding ==
  ( /\ Len(arguments_) = 1
    /\ ~arguments_[1].fixed /\ arguments_[1].nargs = Plus
    /\ arguments_[1].name = <<"i","n">> )
  => /\ ( /\ ret.op = "retrieve"
          /\ ret.names = <<(<<"i","n">>)>> /\ ret.shape = VectorT
          /\ argv = <<LongIn, <<"a">>, <<"b">>, <<"c">>>> )
        => (ret.outcome = "ok" /\ ret.vec = <<(<<"a">>), <<"b">>, <<"c">>>>)
     /\ (ret.op = "parse" /\ argv = <<LongIn>>)
        => ret.outcome = "MissingValue"

\* C3: a declaration that supplies a name the index already holds ends in
\* DuplicateArgument and leaves the descriptors, the slots and the index
\* as they were.
C3_DuplicateRejected ==
  [][ ( /\ IsDeclaration(ret')
        /\ SuppliedNames(ret') \cap DOMAIN index_ # {}
        /\ \A k \in 1..Len(ret'.names) :
             ret'.op = "addArgument" => WellFormedName(ret'.names[k]) )
      => ( /\ ret'.outcome = "DuplicateArgument"
           /\ UNCHANGED <<index_, arguments_, variables_>> ) ]_vars

\* C4: addFinalArgument on a registry that already has a final argument
\* ends in MultipleFinalArguments, adds no descriptor and keeps the
\* recorded final name.
C4_SingleFinal ==
  [][ ( /\ ret'.op = "addFinalArgument"
        /\ final_name_ # EmptyStr
        /\ HasSlot(final_name_) )
      => ( /\ ret'.outcome = "MultipleFinalArguments"
           /\ UNCHANGED <<arguments_, variables_, final_name_>> ) ]_vars

\* C5: a retrieve of a name that is not indexed, or of a shape other than
\* the one the slot holds, ends in an error, leaves index, descriptors,
\* slots and final name unchanged, and afterwards every declared name can
\* still be retrieved with the shape its slot holds.
C5_RetrieveFailureFrame ==
  [][ ( /\ ret'.op = "retrieve"
        /\ \/ ret'.names[1] \notin DOMAIN index_
           \/ HasSlot(ret'.names[1]) /\ HeldShape(ret'.names[1]) # ret'.shape )
      => ( /\ ret'.outcome \in Errors
           /\ UNCHANGED registry
           /\ \A n \in DOMAIN index_ :
                HasSlot(n) =>
                  (retrieveResult(n, HeldShape(n)))' =
                     {[outcome |-> "ok", value |-> variables_[index_[n] + 1].held]} ) ]_vars

\* C5 witness: an ordered sequence was requested from a fixed-count-1 slot.
C5_Witness ==
  /\ ret.op = "retrieve"
  /\ ret.outcome = "bad_cast"
  /\ ret.shape = VectorT
  /\ HasSlot(ret.names[1])
  /\ arguments_[index_[ret.names[1]] + 1].fixed
  /\ arguments_[index_[ret.names[1]] + 1].nargs = 1

\* C6: a fixed-count slot with N <= 1 holds a single string, a fixed-count
\* slot with N > 1 holds an ordered sequence, a variable-arity slot holds an
\* ordered sequence.
C6_ShapeFollowsArity ==
  /\ Len(variables_) = Len(arguments_)
  /\ \A i \in 1..Len(arguments_) :
       variables_[i].type =
         IF arguments_[i].fixed /\ arguments_[i].nargs <= 1 THEN StringT
                                                            ELSE VectorT

\* C7: an addArgument call in which a supplied name is malformed ends in
\* an error and leaves descriptors, slots, index and final name unchanged.
C7_MalformedNameAtomic ==
  [][ ( /\ ret'.op = "addArgument"
        /\ \E k \in 1..Len(ret'.names) : ~WellFormedName(ret'.names[k]) )
      => ( /\ ret'.outcome = "invalid_argument"
           /\ UNCHANGED registry ) ]_vars

\* C7 witness: a two-name declaration whose short name is well formed and
\* whose long name is not has failed on a registry that holds descriptors.
C7_Witness ==
  /\ ret.op = "addArgument"
  /\ ret.outcome = "invalid_argument"
  /\ Len(ret.names) = 2
  /\ WellFormedName(ret.names[1])
  /\ ~WellFormedName(ret.shape)
  /\ Len(arguments_) > 0

\* C8: usage renders every descriptor exactly once: the required non-final
\* ones in declaration order, then the optional non-final ones in
\* declaration order, then the final one.
FinalPos ==
  IF final_name_ # EmptyStr /\ HasSlot(final_name_)
    THEN index_[final_name_] + 1 ELSE 0

RECURSIVE Positions(_, _)
Positions(i, wantOptional) ==
  IF i > Len(arguments_) THEN << >>
  ELSE (IF arguments_[i].optional = wantOptional /\ i # FinalPos
          THEN <<i>> ELSE << >>) \o Positions(i + 1, wantOptional)

ExpectedOrder ==
  Positions(1, FALSE) \o Positions(1, TRUE)
    \o (IF FinalPos # 0 THEN <<FinalPos>> ELSE << >>)

C8_UsageRendersAllInOrder ==
  UsageDone =>
    [k \in 1..Len(ret.items) |-> ret.items[k].pos] = ExpectedOrder

\* C9: a line break precedes a non-final descriptor exactly when
\* its size plus the summed sizes of the descriptors already on the current
\* output line exceeds 80, so the descriptors of one line total at most 80
\* unless one of them alone exceeds 80.
C9_WrapByLineTotal ==
  UsageDone =>
    LET items == NonFinalItems(ret.items)
    IN  \A k \in 1..Len(items) :
          /\ items[k].brk <=> (items[k].len + OnLineBefore(items, k) > WrapColumn)
          /\ \/ SumLen(items, LineStart(items, k), k) <= WrapColumn
             \/ \E j \in LineStart(items, k)..k : items[j].len > WrapColumn

\* C10: a recorded final name is a key of the index and maps to a position
\* inside the descriptor list.
C10_FinalNameIndexed ==
  final_name_ # EmptyStr =>
    (final_name_ \in DOMAIN index_ /\ index_[final_name_] < Len(arguments_))

====
